---- MODULE Spec2Model ----
(***************************************************************************)
(* A model of the travel planner core: the quota allocator and sequence    *)
(* builder (planner/preferences.py), the weather adapter                   *)
(* (planner/weather.py), the router (planner/places.py), the candidate     *)
(* scorer and the itinerary generator (planner/pipeline.py), and the       *)
(* POST /plan endpoint (app.py).                                           *)
(*                                                                         *)
(* Python values are modelled as follows.  A list is a sequence.  A dict   *)
(* is a sequence of <<key, value>> pairs in insertion order (Python dicts  *)
(* iterate in insertion order, and max()/min() return the first extremal   *)
(* element in iteration order).  A category name is a string; Python's     *)
(* string order on the names used here is given by CatRank.                *)
(***************************************************************************)
EXTENDS Integers, Sequences, FiniteSets, TLC

VARIABLES
    qPc, qWeights, qN, qOut,                       \* a call of proportional_quotas
    bPc, bRows, bDays, weights, n_keep, quotas, result, last, bOut,
                                                   \* a call of build_weighted_sequence
    wPc, wCategories, wForecast, wOut,             \* a call of prefer_indoor_if_rain
    rPc, rStart, rPoints, unused, route, cur,      \* a call of nearest_route
    sPc, sStart, sItems, sK, sRound, scored, sOut, \* a call of score_candidates
    gPc, gRows, gDays, stay_latlng, use_groq, latlng, per_day_categories,
    forecasts, plan, chosen, groq_notes, gErr,     \* a call of generate_itinerary
    aPc, req, geo, aResp                           \* a request POST /plan

qVars == <<qPc, qWeights, qN, qOut>>
bVars == <<bPc, bRows, bDays, weights, n_keep, quotas, result, last, bOut>>
wVars == <<wPc, wCategories, wForecast, wOut>>
rVars == <<rPc, rStart, rPoints, unused, route, cur>>
sVars == <<sPc, sStart, sItems, sK, sRound, scored, sOut>>
gVars == <<gPc, gRows, gDays, stay_latlng, use_groq, latlng, per_day_categories,
           forecasts, plan, chosen, groq_notes, gErr>>
aVars == <<aPc, req, geo, aResp>>
vars == <<qVars, bVars, wVars, rVars, sVars, gVars, aVars>>

(***************************************************************************)
(* Bounds of the model.                                                    *)
(***************************************************************************)
MaxLen == 3        \* longest list of (category, weight) pairs
MaxRows == 3       \* most distinct preference rows of one traveler type
MaxWeight == 2     \* largest preference weight
MaxN == 5          \* largest n_total handed to proportional_quotas
MaxDays == 3       \* largest day count handed to build_weighted_sequence
MaxCats == 4       \* longest category list handed to prefer_indoor_if_rain
MaxPoints == 3     \* longest point list handed to nearest_route
MaxLat == 2        \* largest latitude (degrees) of a coordinate
MaxItems == 3      \* longest candidate list handed to score_candidates
MaxScoreLat == 1   \* largest latitude (degrees) of a scored candidate
MaxK == 2          \* largest k handed to score_candidates
MaxTripDays == 2   \* largest day count handed to generate_itinerary
MaxPlanDays == 3   \* largest day count of a request POST /plan
MaxElements == 7   \* most named elements the places query returns

(***************************************************************************)
(* Category names, in ascending Python string order.                       *)
(***************************************************************************)
Categories == <<"cafes", "museums", "romantic", "scenic">>
CatSet == {Categories[i] : i \in 1..Len(Categories)}
CatRank(c) == CHOOSE i \in 1..Len(Categories) : Categories[i] = c

None == "None"

(***************************************************************************)
(* Generic helpers: sums, dicts, Python's stable sort on tuple keys.       *)
(***************************************************************************)
RECURSIVE SumSeq(_)
SumSeq(s) == IF s = << >> THEN 0 ELSE Head(s) + SumSeq(Tail(s))

Abs(x) == IF x < 0 THEN 0 - x ELSE x
Max2(a, b) == IF a >= b THEN a ELSE b
Min2(a, b) == IF a <= b THEN a ELSE b

RECURSIVE Pow2(_)
Pow2(k) == IF k <= 0 THEN 1 ELSE 2 * Pow2(k - 1)

\* dict[key], for a key that is present
DictGet(d, key) == d[CHOOSE i \in 1..Len(d) : d[i][1] = key][2]
DictHas(d, key) == \E i \in 1..Len(d) : d[i][1] = key
\* d[key] = value: an existing key keeps its position, a new key goes last
DictSet(d, key, value) ==
    IF DictHas(d, key)
    THEN [i \in 1..Len(d) |-> IF d[i][1] = key THEN <<key, value>> ELSE d[i]]
    ELSE Append(d, <<key, value>>)
\* del d[key]
DictDel(d, key) == SelectSeq(d, LAMBDA kv : kv[1] # key)
DictValues(d) == [i \in 1..Len(d) |-> d[i][2]]

\* Lexicographic order on integer tuples of equal length (Python tuple order).
RECURSIVE LexLess(_, _)
LexLess(k1, k2) ==
    IF k1 = << >> \/ k2 = << >> THEN FALSE
    ELSE IF Head(k1) # Head(k2) THEN Head(k1) < Head(k2)
    ELSE LexLess(Tail(k1), Tail(k2))

\* sorted(items, key=...) : stable, ascending.  keyed is a sequence of
\* <<key, item>>; an element goes after every element whose key is not greater.
RECURSIVE InsertAsc(_, _)
InsertAsc(sorted, x) ==
    IF sorted = << >> THEN <<x>>
    ELSE IF LexLess(x[1], Head(sorted)[1]) THEN <<x>> \o sorted
    ELSE <<Head(sorted)>> \o InsertAsc(Tail(sorted), x)

RECURSIVE PySorted(_)
PySorted(keyed) ==
    IF keyed = << >> THEN << >>
    ELSE InsertAsc(PySorted(SubSeq(keyed, 1, Len(keyed) - 1)), keyed[Len(keyed)])

\* sorted(items, key=..., reverse=True) / list.sort(reverse=True): descending,
\* and still stable (elements with equal keys keep their input order).
RECURSIVE InsertDesc(_, _)
InsertDesc(sorted, x) ==
    IF sorted = << >> THEN <<x>>
    ELSE IF LexLess(Head(sorted)[1], x[1]) THEN <<x>> \o sorted
    ELSE <<Head(sorted)>> \o InsertDesc(Tail(sorted), x)

RECURSIVE PySortedReverse(_)
PySortedReverse(keyed) ==
    IF keyed = << >> THEN << >>
    ELSE InsertDesc(PySortedReverse(SubSeq(keyed, 1, Len(keyed) - 1)), keyed[Len(keyed)])

Items(keyed) == [i \in 1..Len(keyed) |-> keyed[i][2]]

(***************************************************************************)
(* IEEE-754 double arithmetic of proportional_quotas, in integers.         *)
(* raw = (n_total * w) / total_w is the double nearest to the quotient     *)
(* A / B (A = n_total * w >= 0, B = total_w > 0): it keeps                  *)
(* k = 52 - e fractional bits, where 2^e <= A/B < 2^(e+1).  raw - floor(raw)*)
(* is then exact, so the fractional part the code sorts by is R/B rounded  *)
(* to a multiple of 2^-k (R = A mod B).  FracKey orders these doubles:     *)
(* first by R, then by the rounding error, which is (up*B - rem) / B       *)
(* units of 2^-k and is scaled here to a common unit.                      *)
(***************************************************************************)
\* smallest k with 2^k > b
RECURSIVE BitLen(_)
BitLen(b) == IF b <= 0 THEN 0 ELSE 1 + BitLen(b \div 2)

\* least j >= 1 with a * 2^j >= b, for 0 < a < b
RECURSIVE LeadShift(_, _)
LeadShift(a, b) == IF 2 * a >= b THEN 1 ELSE 1 + LeadShift(2 * a, b)

\* e with 2^e <= a/b < 2^(e+1), for a > 0
FloatExponent(a, b) ==
    IF a >= b THEN BitLen(a \div b) - 1 ELSE 0 - LeadShift(a, b)

\* 2^k mod b, by repeated squaring
RECURSIVE Pow2Mod(_, _)
Pow2Mod(k, b) ==
    IF k <= 0 THEN 1 % b
    ELSE LET h == Pow2Mod(k \div 2, b)
         IN  (h * h * (IF k % 2 = 1 THEN 2 ELSE 1)) % b

\* (r * 2^k) mod b
ShiftMod(r, k, b) == ((r % b) * Pow2Mod(k, b)) % b

FracKey(A, B) ==
    LET R == A % B
    IN  IF R = 0 THEN <<0, 0>>
        ELSE LET e   == FloatExponent(Abs(A), B)
                 rem == ShiftMod(R, 52 - e, B)
                 up  == IF 2 * rem > B THEN 1 ELSE 0
             IN  <<R, Pow2(BitLen(B) + e) * (up * B - rem)>>

(***************************************************************************)
(* planner/preferences.py : proportional_quotas                            *)
(***************************************************************************)
\* the keys of {c: ... for c, _ in weights}, in insertion order
RECURSIVE DictKeysOf(_)
DictKeysOf(ws) ==
    IF ws = << >> THEN << >>
    ELSE LET init == DictKeysOf(SubSeq(ws, 1, Len(ws) - 1))
             c    == ws[Len(ws)][1]
         IN  IF \E i \in 1..Len(init) : init[i] = c THEN init ELSE Append(init, c)

\* the weight a dict comprehension over weights keeps for c: the last one
LastWeight(ws, c) ==
    ws[CHOOSE i \in 1..Len(ws) :
          ws[i][1] = c /\ \A j \in (i + 1)..Len(ws) : ws[j][1] # c][2]

total_weight(ws) == SumSeq([i \in 1..Len(ws) |-> ws[i][2]])

\* a slip of quota_guard: only n_total == 0 returns early
quota_guard_eq(total_w, n_total) == total_w = 0 \/ n_total = 0

\* line 23: the early-return test
quota_guard(total_w, n_total) == total_w = 0 \/ n_total <= 0

\* a slip of floor_share: round(raw) in place of floor(raw)
round_share(n_total, w, total_w) == (2 * n_total * w + total_w) \div (2 * total_w)

\* a slip of floor_share: n_total // total_w * w, the division taken first
floor_share_div_first(n_total, w, total_w) == (n_total \div total_w) * w

\* lines 25-26: floor((n_total * w) / total_w); the quotient of two small
\* integers is never rounded up to the next integer, so this is the exact floor
floor_share(n_total, w, total_w) == (n_total * w) \div total_w

\* lines 30-31: for i in range(rem): base[frac[i % len(frac)][1]] += 1
RECURSIVE distribute(_, _, _, _)
distribute(base, frac, i, rem) ==
    IF i >= rem THEN base
    ELSE LET c == frac[(i % Len(frac)) + 1]
         IN  distribute(DictSet(base, c, DictGet(base, c) + 1), frac, i + 1, rem)

\* line 29: sorted(((raw[c] - base[c], c) for c, _ in weights), reverse=True)
frac_sorted(ws, n_total, total_w) ==
    Items(PySortedReverse(
        [i \in 1..Len(ws) |->
            LET c == ws[i][1]
            IN  <<FracKey(n_total * LastWeight(ws, c), total_w) \o <<CatRank(c)>>, c>>]))

Returned(v) == [exc |-> "none", value |-> v]
Raised(e)   == [exc |-> e, value |-> << >>]

proportional_quotas(ws, n_total) ==
    LET total_w == total_weight(ws)
        keys    == DictKeysOf(ws)
    IN  IF quota_guard(total_w, n_total)
        THEN Returned([i \in 1..Len(keys) |-> <<keys[i], 0>>])
        ELSE IF total_w = 0 THEN Raised("ZeroDivisionError")
        ELSE LET base == [i \in 1..Len(keys) |->
                             <<keys[i], floor_share(n_total, LastWeight(ws, keys[i]), total_w)>>]
                 rem  == n_total - SumSeq(DictValues(base))
             IN  IF rem > 0
                 THEN IF Len(ws) = 0 THEN Raised("ZeroDivisionError")
                      ELSE Returned(distribute(base, frac_sorted(ws, n_total, total_w), 0, rem))
                 ELSE Returned(base)

(***************************************************************************)
(* Inputs: every list of at most MaxLen (category, weight) pairs.          *)
(***************************************************************************)
PrefCats == {"cafes", "romantic", "scenic"}
Pairs == {<<c, w>> : c \in PrefCats, w \in 0..MaxWeight}
WeightLists == UNION {[1..n -> Pairs] : n \in 0..MaxLen}
RowSets == {rows \in SUBSET Pairs : Cardinality(rows) <= MaxRows}

QuotaIdle == qPc = "idle" /\ qWeights = << >> /\ qN = 0 /\ qOut = Returned(<< >>)

\* the weights of the documented example (traveler type "couple")
ExampleWeights == << <<"romantic", 5>>, <<"scenic", 3>>, <<"cafes", 2>> >>

QuotaInit ==
    /\ qPc = "call"
    /\ qWeights \in WeightLists \cup {ExampleWeights}
    /\ qN \in (0 - 1)..MaxN
    /\ qOut = Returned(<< >>)

CallProportionalQuotas ==
    /\ qPc = "call"
    /\ qPc' = "done"
    /\ qOut' = proportional_quotas(qWeights, qN)
    /\ UNCHANGED <<qWeights, qN, bVars, wVars, rVars, sVars, gVars, aVars>>

(***************************************************************************)
(* planner/preferences.py : build_weighted_sequence                        *)
(* bRows is the set of (cat_norm, weight) rows of the preference table     *)
(* whose traveler_type matches (the order of the rows and a row given      *)
(* twice do not show in the grouped, sorted frame); no row means an        *)
(* unknown traveler type.                                                  *)
(***************************************************************************)
\* lines 40-41: groupby(cat_norm).weight.max()
MaxWeightOf(rows, c) ==
    CHOOSE w \in {p[2] : p \in {r \in rows : r[1] = c}} :
        \A p \in rows : p[1] = c => p[2] <= w

\* lines 39-44: one (cat_norm, weight) pair per category,
\* sorted by weight descending, then cat_norm ascending
cat_weights(rows) ==
    LET grouped == {<<c, MaxWeightOf(rows, c)>> : c \in {p[1] : p \in rows}}
        before(p, q) == p[2] > q[2] \/ (p[2] = q[2] /\ CatRank(p[1]) < CatRank(q[1]))
    IN  [i \in 1..Cardinality(grouped) |->
            CHOOSE p \in grouped : Cardinality({q \in grouped : before(q, p)}) = i - 1]

\* a slip of n_keep_of: no slot is reserved
n_keep_all_slots(days) == Max2(days * 3, 0)

\* line 47: n_keep = max(int(days) * 3 - 1, 0)
n_keep_of(days) == Max2(days * 3 - 1, 0)

\* line 52: {c: q for c, q in quotas.items() if q > 0}
positive_quotas(q) == SelectSeq(q, LAMBDA kv : kv[2] > 0)

\* Extended numbers for sort keys: <<-1, 0>> is -inf, <<0, v>> is v, <<1, 0>> is inf.
NegInf == <<0 - 1, 0>>
Finite(v) == <<0, v>>
ExtNeg(x) == <<0 - x[1], 0 - x[2]>>

\* Python keys of different types: a str and a tuple are never equal.
PyStr(c) == <<"str", c>>
PyTuple(kv) == <<"tuple", kv[1], kv[2]>>

\* weight_map.get(key, default); the keys of weight_map are category names
weight_map_get(weight_map, key, default) ==
    IF \E i \in 1..Len(weight_map) : PyStr(weight_map[i][1]) = key
    THEN Finite(weight_map[CHOOSE i \in 1..Len(weight_map) : PyStr(weight_map[i][1]) = key][2])
    ELSE default

\* a slip of cand_sorted: the key starts with kv[1] in place of -kv[1], so that
\* the lowest remaining quota comes first
cand_sorted_lowest_first(qs, weight_map) ==
    Items(PySorted(
        [i \in 1..Len(qs) |->
            LET kv == qs[i]
            IN  <<(<<kv[2]>>
                     \o ExtNeg(weight_map_get(weight_map, PyTuple(kv), NegInf))
                     \o <<CatRank(kv[1]), kv[2]>>),
                  kv>>]))

\* line 56: sorted(quotas.items(), key=lambda kv: (-kv[1], -weight_map.get(kv, -inf), kv))
\* the lookup key is the whole (category, quota) item
cand_sorted(qs, weight_map) ==
    Items(PySorted(
        [i \in 1..Len(qs) |->
            LET kv == qs[i]
            IN  <<(<<0 - kv[2]>>
                     \o ExtNeg(weight_map_get(weight_map, PyTuple(kv), NegInf))
                     \o <<CatRank(kv[1]), kv[2]>>),
                  kv>>]))

\* a slip of first_placeable: the test cat != last is missing
first_with_quota(cand, lst) ==
    LET ok == {i \in 1..Len(cand) : cand[i][2] > 0}
    IN  IF ok = {} THEN 0 ELSE CHOOSE i \in ok : \A j \in ok : i <= j

\* lines 58-59: the first candidate with cat != last and q > 0, or 0 if there is none
first_placeable(cand, lst) ==
    LET ok == {i \in 1..Len(cand) : cand[i][1] # lst /\ cand[i][2] > 0}
    IN  IF ok = {} THEN 0 ELSE CHOOSE i \in ok : \A j \in ok : i <= j

\* line 67: max(quotas.items(), key=lambda kv: (kv[1], weight_map.get(kv, -inf)));
\* max returns the first maximal item in dict order
fallback_pick(qs, weight_map) ==
    LET key(kv) == <<kv[2]>> \o weight_map_get(weight_map, PyTuple(kv), NegInf)
        i == CHOOSE i \in 1..Len(qs) :
                /\ \A j \in 1..Len(qs) : ~LexLess(key(qs[i]), key(qs[j]))
                /\ \A j \in 1..(i - 1) : LexLess(key(qs[j]), key(qs[i]))
    IN  qs[i]

\* a slip of consume: if quotas[cat] <= 1: del quotas[cat]
consume_early(qs, cat, q) ==
    IF q - 1 <= 1 THEN DictDel(qs, cat) ELSE DictSet(qs, cat, q - 1)

\* lines 61-62 and 69-70: quotas[cat] = q - 1; if quotas[cat] <= 0: del quotas[cat]
consume(qs, cat, q) ==
    IF q - 1 <= 0 THEN DictDel(qs, cat) ELSE DictSet(qs, cat, q - 1)

\* line 55: while len(result) < n_keep and quotas
loop_continues(res, nk, qs) == Len(res) < nk /\ qs # << >>

\* result[:n_keep], for n_keep >= 0
Prefix(s, n) == SubSeq(s, 1, Min2(n, Len(s)))

BuilderIdle ==
    /\ bPc = "idle" /\ bRows = {} /\ bDays = 0 /\ weights = << >> /\ n_keep = 0
    /\ quotas = << >> /\ result = << >> /\ last = None /\ bOut = << >>

BuilderInit ==
    /\ bPc = "call"
    /\ bRows \in RowSets
    /\ bDays \in (0 - 1)..MaxDays
    /\ weights = << >> /\ n_keep = 0
    /\ quotas = << >> /\ result = << >> /\ last = None /\ bOut = << >>

\* lines 35-37: an unknown traveler type returns []
BuildUnknownType ==
    /\ bPc = "call"
    /\ bRows = {}
    /\ bPc' = "done"
    /\ bOut' = << >>
    /\ UNCHANGED <<bRows, bDays, weights, n_keep, quotas, result, last>>
    /\ UNCHANGED <<qVars, wVars, rVars, sVars, gVars, aVars>>

\* lines 39-49: no slot to fill returns []
BuildNoSlots ==
    /\ bPc = "call"
    /\ bRows # {}
    /\ n_keep_of(bDays) = 0
    /\ bPc' = "done"
    /\ weights' = cat_weights(bRows)
    /\ n_keep' = 0
    /\ bOut' = << >>
    /\ UNCHANGED <<bRows, bDays, quotas, result, last>>
    /\ UNCHANGED <<qVars, wVars, rVars, sVars, gVars, aVars>>

\* lines 39-54: the quotas are computed and the loop is entered
BuildStart ==
    /\ bPc = "call"
    /\ bRows # {}
    /\ n_keep_of(bDays) # 0
    /\ LET ws == cat_weights(bRows)
           q  == proportional_quotas(ws, n_keep_of(bDays))
       IN  /\ weights' = ws
           /\ n_keep' = n_keep_of(bDays)
           /\ IF q.exc = "none"
              THEN bPc' = "loop" /\ quotas' = positive_quotas(q.value)
              ELSE bPc' = "raised" /\ quotas' = << >>
    /\ result' = << >>
    /\ last' = None
    /\ UNCHANGED <<bRows, bDays, bOut>>
    /\ UNCHANGED <<qVars, wVars, rVars, sVars, gVars, aVars>>

\* lines 55-65: one iteration that places a category other than the last one
BuildPlace ==
    /\ bPc = "loop"
    /\ loop_continues(result, n_keep, quotas)
    /\ LET cand == cand_sorted(quotas, weights)
           i    == first_placeable(cand, last)
       IN  /\ i # 0
           /\ result' = Append(result, cand[i][1])
           /\ quotas' = consume(quotas, cand[i][1], cand[i][2])
           /\ last' = cand[i][1]
    /\ UNCHANGED <<bPc, bRows, bDays, weights, n_keep, bOut>>
    /\ UNCHANGED <<qVars, wVars, rVars, sVars, gVars, aVars>>

\* lines 55-59 and 66-71: one iteration in which nothing could be placed
BuildFallback ==
    /\ bPc = "loop"
    /\ loop_continues(result, n_keep, quotas)
    /\ first_placeable(cand_sorted(quotas, weights), last) = 0
    /\ LET kv == fallback_pick(quotas, weights)
       IN  /\ result' = Append(result, kv[1])
           /\ quotas' = consume(quotas, kv[1], kv[2])
           /\ last' = kv[1]
    /\ UNCHANGED <<bPc, bRows, bDays, weights, n_keep, bOut>>
    /\ UNCHANGED <<qVars, wVars, rVars, sVars, gVars, aVars>>

\* line 72: return result[:n_keep]
BuildReturn ==
    /\ bPc = "loop"
    /\ ~loop_continues(result, n_keep, quotas)
    /\ bPc' = "done"
    /\ bOut' = Prefix(result, n_keep)
    /\ UNCHANGED <<bRows, bDays, weights, n_keep, quotas, result, last>>
    /\ UNCHANGED <<qVars, wVars, rVars, sVars, gVars, aVars>>

(***************************************************************************)
(* planner/weather.py : prefer_indoor_if_rain                              *)
(* Python's None is <<"None">>, a float is <<"float", hundredths>> and a   *)
(* forecast dict is <<"dict", pairs>>.                                     *)
(***************************************************************************)
INDOOR_CATS ==
    {"museums", "cafes", "shopping_malls", "markets", "temples", "theaters",
     "cultural_centers", "aquariums", "science_centers", "libraries", "art_galleries"}

PyNone == <<"None">>
PyFloat(h) == <<"float", h>>
PyDict(pairs) == <<"dict", pairs>>

\* 0.5, in hundredths
RainThreshold == 50

\* line 46: not forecast  (None and the empty dict are falsy)
falsy(forecast) == forecast = PyNone \/ forecast[2] = << >>

\* forecast.get("avg_pop")
get_avg_pop(forecast) ==
    IF DictHas(forecast[2], "avg_pop") THEN DictGet(forecast[2], "avg_pop") ELSE PyNone

\* a slip of is_rainy: the comparison is inverted
is_rainy_inverted(pop) == pop[2] <= RainThreshold

\* line 48: rainy = forecast["avg_pop"] >= 0.5
is_rainy(pop) == pop[2] >= RainThreshold

\* categories[:n] and categories[n:] for n >= 0
SliceTo(s, n) == SubSeq(s, 1, Min2(n, Len(s)))
SliceFrom(s, n) == SubSeq(s, n + 1, Len(s))

\* a slip of indoor_first: the two groups are joined the other way round
outdoor_first(categories) ==
    LET indoors  == SelectSeq(categories, LAMBDA c : c \in INDOOR_CATS)
        outdoors == SelectSeq(categories, LAMBDA c : c \notin INDOOR_CATS)
        mixed    == SliceTo(outdoors \o indoors, 3)
    IN  mixed \o SliceFrom(categories, 3)

\* lines 51-55
indoor_first(categories) ==
    LET indoors  == SelectSeq(categories, LAMBDA c : c \in INDOOR_CATS)
        outdoors == SelectSeq(categories, LAMBDA c : c \notin INDOOR_CATS)
        mixed    == SliceTo(indoors \o outdoors, 3)
    IN  mixed \o SliceFrom(categories, 3)

prefer_indoor_if_rain(categories, forecast) ==
    IF falsy(forecast) \/ get_avg_pop(forecast) = PyNone THEN categories
    ELSE IF ~is_rainy(get_avg_pop(forecast)) THEN categories
    ELSE indoor_first(categories)

Pops == {0, 49, 50, 51, 100}
Forecasts ==
    {PyNone, PyDict(<< >>), PyDict(<< <<"avg_pop", PyNone>> >>)}
        \cup {PyDict(<< <<"avg_pop", PyFloat(p)>> >>) : p \in Pops}
CategoryLists == UNION {[1..n -> CatSet] : n \in 0..MaxCats}

WeatherIdle == wPc = "idle" /\ wCategories = << >> /\ wForecast = PyNone /\ wOut = << >>

WeatherInit ==
    /\ wPc = "call"
    /\ wCategories \in CategoryLists
    /\ wForecast \in Forecasts
    /\ wOut = << >>

CallPreferIndoorIfRain ==
    /\ wPc = "call"
    /\ wPc' = "done"
    /\ wOut' = prefer_indoor_if_rain(wCategories, wForecast)
    /\ UNCHANGED <<wCategories, wForecast, qVars, bVars, rVars, sVars, gVars, aVars>>

(***************************************************************************)
(* planner/places.py : haversine, nearest_route                            *)
(* A coordinate is <<lat, lng>> in whole degrees.  The coordinates of the  *)
(* model lie on the meridian lng = 0, where the great-circle distance is   *)
(* the arc between the latitudes: a multiple of the length of one degree.  *)
(* haversine is given in that unit.                                        *)
(***************************************************************************)
haversine(a, b) == Abs(b[1] - a[1])

latlng_of(p) == <<p.lat, p.lng>>

\* a slip of nearest: a hand-written minimum that replaces on <=, so that the
\* last element of least key wins
nearest_last(us, c) ==
    us[CHOOSE i \in 1..Len(us) :
          /\ \A j \in 1..Len(us) :
                haversine(c, latlng_of(us[i])) <= haversine(c, latlng_of(us[j]))
          /\ \A j \in (i + 1)..Len(us) :
                haversine(c, latlng_of(us[j])) > haversine(c, latlng_of(us[i]))]

\* min(unused, key=...): the first element of least key
nearest(us, c) ==
    us[CHOOSE i \in 1..Len(us) :
          /\ \A j \in 1..Len(us) :
                haversine(c, latlng_of(us[i])) <= haversine(c, latlng_of(us[j]))
          /\ \A j \in 1..(i - 1) :
                haversine(c, latlng_of(us[j])) > haversine(c, latlng_of(us[i]))]

\* a slip of list_remove: unused = [p for p in unused if p != nxt]
list_remove_all(us, x) == SelectSeq(us, LAMBDA p : p # x)

\* list.remove(x): drops the first element equal to x
list_remove(us, x) ==
    LET i == CHOOSE i \in 1..Len(us) : us[i] = x /\ \A j \in 1..(i - 1) : us[j] # x
    IN  SubSeq(us, 1, i - 1) \o SubSeq(us, i + 1, Len(us))

Lats == 0..MaxLat
PlaceIds == {"p1", "p2"}
Points == [place_id : PlaceIds, lat : Lats, lng : {0}]
PointLists == UNION {[1..n -> Points] : n \in 0..MaxPoints}

RouteIdle ==
    /\ rPc = "idle" /\ rStart = <<0, 0>> /\ rPoints = << >>
    /\ unused = << >> /\ route = << >> /\ cur = <<0, 0>>

RouteInit ==
    /\ rPc = "call"
    /\ rStart \in {<<la, 0>> : la \in Lats}
    /\ rPoints \in PointLists
    /\ unused = << >> /\ route = << >> /\ cur = <<0, 0>>

\* lines 106-107: route, unused = [], points[:]; cur = start_latlng
RouteStart ==
    /\ rPc = "call"
    /\ rPc' = "loop"
    /\ route' = << >>
    /\ unused' = rPoints
    /\ cur' = rStart
    /\ UNCHANGED <<rStart, rPoints, qVars, bVars, wVars, sVars, gVars, aVars>>

\* lines 108-112: one iteration of while unused
RouteStep ==
    /\ rPc = "loop"
    /\ unused # << >>
    /\ LET nxt == nearest(unused, cur)
       IN  /\ route' = Append(route, nxt)
           /\ cur' = latlng_of(nxt)
           /\ unused' = list_remove(unused, nxt)
    /\ UNCHANGED <<rPc, rStart, rPoints, qVars, bVars, wVars, sVars, gVars, aVars>>

\* line 113: return route
RouteReturn ==
    /\ rPc = "loop"
    /\ unused = << >>
    /\ rPc' = "done"
    /\ UNCHANGED <<rStart, rPoints, unused, route, cur, qVars, bVars, wVars, sVars, gVars, aVars>>

(***************************************************************************)
(* planner/pipeline.py : score_candidates                                  *)
(* A candidate is a record with lat, lng and rating (an integer number of  *)
(* rating steps).  A normalized term is the exact fraction <<num, den>>;   *)
(* all candidates of one call share the two denominators, so a score is    *)
(* compared by its numerator over score_den.  The double the code computes *)
(* is the exact score rounded: two candidates whose exact scores are equal *)
(* but come from different terms may get doubles that differ in the last   *)
(* place (0.6*0 + 0.4*1 = 0.4, but 0.6*(2/3) + 0.4*0 = 0.39999999999999997).*)
(* sRound[i] is the direction of that rounding for candidate i (-1 below,  *)
(* 0 exact, 1 above), and a computed score is <<numerator, rounding>>.     *)
(***************************************************************************)
SeqMin(s) == CHOOSE v \in {s[i] : i \in 1..Len(s)} : \A i \in 1..Len(s) : v <= s[i]
SeqMax(s) == CHOOSE v \in {s[i] : i \in 1..Len(s)} : \A i \in 1..Len(s) : v >= s[i]

\* line 16: dists
dists_of(start, items) == [i \in 1..Len(items) |-> haversine(start, latlng_of(items[i]))]
\* line 17: ratings
ratings_of(items) == [i \in 1..Len(items) |-> items[i].rating]

ZeroDivision == <<"ZeroDivisionError">>
\* a / b
divide(a, b) == IF b = 0 THEN ZeroDivision ELSE <<a, b>>

\* a slip of dist_norm: the test dmax == dmin is missing
dist_norm_unguarded(d, dmin, dmax) == divide(d - dmin, dmax - dmin)

\* line 22: dn = 0 if dmax == dmin else (d - dmin) / (dmax - dmin)
dist_norm(d, dmin, dmax) == IF dmax = dmin THEN <<0, 1>> ELSE divide(d - dmin, dmax - dmin)
\* line 23: rn = 0 if rmax == rmin else (r - rmin) / (rmax - rmin)
rating_norm(r, rmin, rmax) == IF rmax = rmin THEN <<0, 1>> ELSE divide(r - rmin, rmax - rmin)

\* line 24: score = 0.6 * rn + 0.4 * (1 - dn), as a numerator over 10 * rn[2] * dn[2]
score_num(rn, dn) == 6 * rn[1] * dn[2] + 4 * (dn[2] - dn[1]) * rn[2]
score_den(rn, dn) == 10 * rn[2] * dn[2]

\* lines 16-25: the list of (score, x), or the error raised on the way
scored_of(start, items, rounding) ==
    LET dists   == dists_of(start, items)
        ratings == ratings_of(items)
        dmin == SeqMin(dists)
        dmax == SeqMax(dists)
        rmin == SeqMin(ratings)
        rmax == SeqMax(ratings)
        dn(i) == dist_norm(dists[i], dmin, dmax)
        rn(i) == rating_norm(ratings[i], rmin, rmax)
    IN  IF \E i \in 1..Len(items) : dn(i) = ZeroDivision \/ rn(i) = ZeroDivision
        THEN Raised("ZeroDivisionError")
        ELSE Returned([i \in 1..Len(items) |->
                          <<(<<score_num(rn(i), dn(i)), rounding[i]>>), items[i]>>])

Reverse(q) == [i \in 1..Len(q) |-> q[Len(q) + 1 - i]]

\* a slip of sort_scored: an ascending sort reversed, which reverses ties
sort_scored_reversed(sc) == Reverse(PySorted(sc))

\* line 26: scored.sort(key=lambda t: t[0], reverse=True)
sort_scored(sc) == PySortedReverse(sc)

\* scored[:k]
PySliceTo(s, k) ==
    IF k >= 0 THEN SubSeq(s, 1, Min2(k, Len(s))) ELSE SubSeq(s, 1, Max2(Len(s) + k, 0))

score_candidates(start, items, k, rounding) ==
    IF items = << >> THEN [exc |-> "none", scored |-> << >>, value |-> << >>]
    ELSE LET sc == scored_of(start, items, rounding)
         IN  IF sc.exc # "none"
             THEN [exc |-> sc.exc, scored |-> << >>, value |-> << >>]
             ELSE LET sorted == sort_scored(sc.value)
                  IN  [exc |-> "none", scored |-> sorted,
                       value |-> Items(PySliceTo(sorted, k))]

ScoreLats == 0..MaxScoreLat
\* ratings, in rating steps; a candidate without a rating counts as 0
Ratings == {0, 2, 3}
Candidates == [lat : ScoreLats, lng : {0}, rating : Ratings]
\* reference coordinates: at the first latitude, and one degree north of it
ScoreStarts == {<<0, 0>>, <<1, 0>>}
CandidateLists == UNION {[1..n -> Candidates] : n \in 0..MaxItems}

\* The exact scores of the candidates, for telling which of them tie exactly.
ExactScores(start, items) ==
    LET dists   == dists_of(start, items)
        ratings == ratings_of(items)
        dmin == SeqMin(dists)
        dmax == SeqMax(dists)
        rmin == SeqMin(ratings)
        rmax == SeqMax(ratings)
    IN  [i \in 1..Len(items) |->
            score_num(IF rmax = rmin THEN <<0, 1>> ELSE <<ratings[i] - rmin, rmax - rmin>>,
                      IF dmax = dmin THEN <<0, 1>> ELSE <<dists[i] - dmin, dmax - dmin>>)]

SameTerms(start, items, i, j) ==
    /\ items[i].rating = items[j].rating
    /\ haversine(start, latlng_of(items[i])) = haversine(start, latlng_of(items[j]))

\* The roundings floating point can produce: equal terms round alike, and
\* rounding is told apart only between candidates that tie exactly.
Roundings(start, items) ==
    LET n     == Len(items)
        exact == ExactScores(start, items)
        same  == [i \in 1..n |-> {j \in 1..n : SameTerms(start, items, i, j)}]
        tied  == [i \in 1..n |-> \E j \in 1..n : j \notin same[i] /\ exact[i] = exact[j]]
    IN  IF \A i \in 1..n : ~tied[i]
        THEN {[i \in 1..n |-> 0]}
        ELSE {r \in [1..n -> {0 - 1, 0, 1}] :
                \A i \in 1..n : /\ \A j \in same[i] : r[i] = r[j]
                                /\ ~tied[i] => r[i] = 0}

ScoreIdle ==
    /\ sPc = "idle" /\ sStart = <<0, 0>> /\ sItems = << >> /\ sK = 0
    /\ sRound = << >> /\ scored = << >> /\ sOut = << >>

ScoreInit ==
    /\ sPc = "call"
    /\ sStart \in ScoreStarts
    /\ sItems \in CandidateLists
    /\ sRound \in Roundings(sStart, sItems)
    /\ sK \in 0..MaxK
    /\ scored = << >>
    /\ sOut = << >>

CallScoreCandidates ==
    /\ sPc = "call"
    /\ LET r == score_candidates(sStart, sItems, sK, sRound)
       IN  /\ sPc' = IF r.exc = "none" THEN "done" ELSE "raised"
           /\ scored' = r.scored
           /\ sOut' = r.value
    /\ UNCHANGED <<sStart, sItems, sK, sRound, qVars, bVars, wVars, rVars, gVars, aVars>>

(***************************************************************************)
(* planner/preferences.py : build_weighted_sequence and sequence_to_days   *)
(* as functions of the preference rows, for their caller.                  *)
(***************************************************************************)
\* lines 55-72: the loop, from the quotas qs, the result res and last lst
RECURSIVE build_loop(_, _, _, _, _)
build_loop(qs, res, lst, nk, weight_map) ==
    IF ~loop_continues(res, nk, qs) THEN Prefix(res, nk)
    ELSE LET cand == cand_sorted(qs, weight_map)
             i    == first_placeable(cand, lst)
             kv   == IF i # 0 THEN cand[i] ELSE fallback_pick(qs, weight_map)
         IN  build_loop(consume(qs, kv[1], kv[2]), Append(res, kv[1]), kv[1], nk, weight_map)

build_weighted_sequence(rows, days) ==
    IF rows = {} \/ n_keep_of(days) = 0 THEN << >>
    ELSE LET ws == cat_weights(rows)
         IN  build_loop(positive_quotas(proportional_quotas(ws, n_keep_of(days)).value),
                        << >>, None, n_keep_of(days), ws)

\* seq[i:j] for 0 <= i <= j
Slice(s, i, j) == SubSeq(s, Min2(i, Len(s)) + 1, Min2(j, Len(s)))

\* a slip of sequence_to_days: i += 2, so that consecutive chunks overlap
sequence_to_days_overlap(seq, days) ==
    [d \in 1..Max2(days, 0) |-> Slice(seq, 2 * (d - 1), 2 * (d - 1) + 3)]

\* lines 74-80: per.append(seq[i:i+3]) for each of range(days)
sequence_to_days(seq, days) ==
    [d \in 1..Max2(days, 0) |-> Slice(seq, 3 * (d - 1), 3 * (d - 1) + 3)]

(***************************************************************************)
(* planner/pipeline.py : generate_itinerary                                *)
(* The collaborators that reach out of the process (geocode_city,          *)
(* daily_forecast, candidates_for_category, groq_refine) are the           *)
(* environment: each call returns one of the values its code can return,   *)
(* or raises.  A Python list handed on as one value is <<"list", items>>,  *)
(* a place dict is <<"dict", record>>.                                     *)
(***************************************************************************)
PyList(items) == <<"list", items>>

Failure(who, e) == [who |-> who, exc |-> e]
NoFailure == Failure("none", "none")

\* places.py lines 50-55: geocode_city returns None, a coordinate, or raises
GeocodeOutcomes == {Raised("HTTPError"), Returned(PyNone), Returned(<<0, 0>>)}

\* weather.py lines 12-38: daily_forecast raises without a key or on an HTTP
\* error, else returns at most `days` daily summaries
ForecastPops == {PyNone, PyFloat(49), PyFloat(RainThreshold)}
DailySummary(d, pop) == PyDict(<< <<"date", d>>, <<"avg_pop", pop>> >>)
ForecastOutcomes(days) ==
    {Raised("RuntimeError"), Raised("HTTPError")}
        \cup UNION {{Returned([d \in 1..n |-> DailySummary(d, pops[d])]) :
                        pops \in [1..n -> ForecastPops]} : n \in 0..Max2(days, 0)}

\* places.py lines 88-96: candidates_for_category returns the places found,
\* each once, with the category added, or raises what places_text_search raises
FoundPlaces ==
    {<< >>,
     << [place_id |-> "p1", lat |-> 0, lng |-> 0, rating |-> 3] >>,
     << [place_id |-> "p1", lat |-> 0, lng |-> 0, rating |-> 3],
        [place_id |-> "p2", lat |-> 1, lng |-> 0, rating |-> 2] >>,
     << [place_id |-> "p2", lat |-> 1, lng |-> 0, rating |-> 0],
        [place_id |-> "p1", lat |-> 0, lng |-> 0, rating |-> 3] >>}
with_category(found, c) ==
    [i \in 1..Len(found) |->
        [place_id |-> found[i].place_id, lat |-> found[i].lat, lng |-> found[i].lng,
         rating |-> found[i].rating, category |-> c]]

\* line 74: what candidates_for_category(latlng, latlng[1], c) does: it raises
\* what the search raises, or returns places; rnd is the rounding of the
\* scores these places get on line 75
SearchOutcomes(start) ==
    {[exc |-> e, value |-> << >>, rnd |-> << >>] : e \in {"RuntimeError", "HTTPError"}}
        \cup UNION {{[exc |-> "none", value |-> found, rnd |-> r] :
                        r \in Roundings(start, found)} : found \in FoundPlaces}

\* line 75: picks = score_candidates(latlng, cand, k=3)
picks_of(start, c, o) ==
    score_candidates(start, with_category(o.value, c), 3, o.rnd).value

\* places.py lines 105-113, as a function
RECURSIVE route_from(_, _)
route_from(c, us) ==
    IF us = << >> THEN << >>
    ELSE LET nxt == nearest(us, c)
         IN  <<nxt>> \o route_from(latlng_of(nxt), list_remove(us, nxt))

\* line 80: nearest_route(latlng, chosen); p["lat"] on a list raises TypeError
nearest_route_of(start, points) ==
    IF points = << >> THEN Returned(<< >>)
    ELSE IF \E i \in 1..Len(points) : points[i][1] = "list" THEN Raised("TypeError")
    ELSE Returned(route_from(start, [i \in 1..Len(points) |-> points[i][2]]))

\* line 79: chosen = [sl["picks"] for sl in day_shortlists if sl["picks"]]
chosen_of(day_shortlists) ==
    [i \in 1..Len(day_shortlists) |-> PyList(day_shortlists[i].picks)]

\* lines 72-77: one shortlist per category with picks
shortlists_of(start, cats, outs) ==
    LET all == [k \in 1..Len(cats) |->
                   [category |-> cats[k], picks |-> picks_of(start, cats[k], outs[k])]]
    IN  SelectSeq(all, LAMBDA sl : sl.picks # << >>)

DayParts == <<"Morning", "Afternoon", "Evening">>

\* lines 82-87: zip(["Morning","Afternoon","Evening"], route)
slots_of(rt) ==
    [k \in 1..Min2(Len(DayParts), Len(rt)) |-> [part |-> DayParts[k], place |-> rt[k]]]

\* lines 89-98: the entry of day i (counted from 1)
day_entry(i, fcasts, fcast, cats, slots, day_shortlists) ==
    [date |-> IF i <= Len(fcasts) /\ DictHas(fcasts[i][2], "date")
              THEN DictGet(fcasts[i][2], "date") ELSE PyNone,
     weather |-> fcast,
     categories |-> cats,
     slots |-> slots,
     alternatives |-> [k \in 1..Len(day_shortlists) |->
                          [category |-> day_shortlists[k].category,
                           alts |-> Slice(day_shortlists[k].picks, 1, 3)]]]

\* lines 29-48: groq_refine returns None without a key; with one, the call
\* raises, or chat.choices (a list) has no attribute message
GroqOutcomes == {Returned(PyNone), Raised("APIError"), Raised("AttributeError")}

\* The preference rows of the traveler types of the table: an unknown type,
\* a type with two categories and one with three.
TravelerRows ==
    {{},
     {<<"romantic", 2>>, <<"cafes", 1>>},
     {<<"romantic", 2>>, <<"scenic", 2>>, <<"cafes", 1>>}}

ItineraryIdle ==
    /\ gPc = "idle" /\ gRows = {} /\ gDays = 0 /\ stay_latlng = PyNone
    /\ use_groq = FALSE /\ latlng = PyNone /\ per_day_categories = << >>
    /\ forecasts = << >> /\ plan = << >> /\ chosen = << >>
    /\ groq_notes = PyNone /\ gErr = NoFailure

ItineraryInit ==
    /\ gPc = "call"
    /\ gRows \in TravelerRows
    /\ gDays \in 0..MaxTripDays
    /\ stay_latlng \in {PyNone, <<1, 0>>}
    /\ use_groq \in BOOLEAN
    /\ latlng = PyNone /\ per_day_categories = << >>
    /\ forecasts = << >> /\ plan = << >> /\ chosen = << >>
    /\ groq_notes = PyNone /\ gErr = NoFailure

\* lines 53-64: the coordinate, the category sequence, the forecasts
GenStart ==
    /\ gPc = "call"
    /\ \E city \in GeocodeOutcomes, fc \in ForecastOutcomes(gDays) :
          LET found == IF stay_latlng # PyNone THEN Returned(stay_latlng) ELSE city
              ok    == found.exc = "none" /\ found.value # PyNone
          IN  /\ latlng' = IF ok THEN found.value ELSE PyNone
              /\ per_day_categories' =
                    IF ok THEN sequence_to_days(build_weighted_sequence(gRows, gDays), gDays)
                    ELSE << >>
              /\ forecasts' = IF ok /\ fc.exc = "none" THEN fc.value ELSE << >>
              /\ gErr' = IF found.exc # "none" THEN Failure("geocode_city", found.exc)
                         ELSE IF found.value = PyNone
                              THEN Failure("generate_itinerary", "ValueError")
                         ELSE IF fc.exc # "none" THEN Failure("daily_forecast", fc.exc)
                         ELSE NoFailure
              /\ gPc' = IF gErr' = NoFailure THEN "days" ELSE "raised"
    /\ UNCHANGED <<gRows, gDays, stay_latlng, use_groq, plan, chosen, groq_notes>>
    /\ UNCHANGED <<qVars, bVars, wVars, rVars, sVars, aVars>>

\* lines 65-98: one iteration of the loop over the days
GenDay ==
    /\ gPc = "days"
    /\ Len(plan) < Len(per_day_categories)
    /\ LET i     == Len(plan) + 1
           fcast == IF i <= Len(forecasts) THEN forecasts[i] ELSE PyNone
           cats  == prefer_indoor_if_rain(per_day_categories[i], fcast)
           n     == Len(cats)
       IN  \E outs \in [1..n -> SearchOutcomes(latlng)] :
              /\ IF \E k \in 1..n : outs[k].exc # "none"
                 THEN LET k == CHOOSE k \in 1..n :
                                  outs[k].exc # "none" /\ \A j \in 1..(k - 1) : outs[j].exc = "none"
                      IN  /\ gPc' = "raised"
                          /\ gErr' = Failure("candidates_for_category", outs[k].exc)
                          /\ UNCHANGED <<plan, chosen>>
                 ELSE LET day_shortlists == shortlists_of(latlng, cats, outs)
                          rt == nearest_route_of(latlng, chosen_of(day_shortlists))
                      IN  /\ chosen' = chosen_of(day_shortlists)
                          /\ IF rt.exc # "none"
                             THEN /\ gPc' = "raised"
                                  /\ gErr' = Failure("nearest_route", rt.exc)
                                  /\ UNCHANGED plan
                             ELSE /\ plan' = Append(plan, day_entry(i, forecasts, fcast, cats,
                                                                 slots_of(rt.value), day_shortlists))
                                  /\ UNCHANGED <<gPc, gErr>>
    /\ UNCHANGED <<gRows, gDays, stay_latlng, use_groq, latlng, per_day_categories,
                   forecasts, groq_notes>>
    /\ UNCHANGED <<qVars, bVars, wVars, rVars, sVars, aVars>>

\* lines 100-113: the optional notes, and the result
GenReturn ==
    /\ gPc = "days"
    /\ Len(plan) = Len(per_day_categories)
    /\ \E notes \in GroqOutcomes :
          groq_notes' = IF use_groq /\ notes.exc = "none" THEN notes.value ELSE PyNone
    /\ gPc' = "done"
    /\ UNCHANGED <<gRows, gDays, stay_latlng, use_groq, latlng, per_day_categories,
                   forecasts, plan, chosen, gErr>>
    /\ UNCHANGED <<qVars, bVars, wVars, rVars, sVars, aVars>>

(***************************************************************************)
(* app.py : POST /plan                                                     *)
(* The request is valid (FastAPI answers 422 before plan runs otherwise):  *)
(* days is in 1..14.  A place is known by its name, <<kind, number>>.      *)
(* geocode_location, osm_search_places and openweather_forecast catch      *)
(* their own exceptions; what they return is the environment's choice.     *)
(***************************************************************************)
FreeExploration == <<"Free exploration", 0>>
NamedPlaces(kind, n) == [i \in 1..n |-> [name |-> <<kind, i>>]]

\* lines 114-224: osm_search_places, for n named elements found or a failed
\* query: fewer than 3 results are filled up from 5 generic places (lines
\* 191-208), and a failed query returns the first of 5 fallback places
\* (lines 215-224)
osm_search_places(n, failed, limit) ==
    IF failed THEN SliceTo(NamedPlaces("fallback", 5), limit)
    ELSE LET results == NamedPlaces("osm", Min2(n, limit))
             filled  == IF Len(results) < 3
                        THEN results \o SliceTo(NamedPlaces("generic", 5),
                                                Max2(limit - Len(results), 0))
                        ELSE results
         IN  SliceTo(filled, limit)

\* lines 87-112: geocode_location returns None or a coordinate
GeoOutcomes == {PyNone, <<PyFloat(100), PyFloat(200)>>}

\* lines 226-281: openweather_forecast returns [None] * days, at most `days`
\* forecasts, or `days` copies of the fallback forecast
WeatherOutcomes(days) ==
    {[d \in 1..days |-> PyNone]}
        \cup {[d \in 1..k |-> PyDict(<< <<"condition", "Clear">> >>)] : k \in 0..days}

\* lines 452-455: datetime.fromisoformat raises ValueError on a malformed date
StartDates == {PyNone, PyStr("2026-01-01"), PyStr("tomorrow")}
iso_date_ok(start_date) == start_date # PyStr("tomorrow")

\* a slip of day_slots: a part without a place gets no slot
day_slots_no_placeholder(day_places) ==
    [i \in 1..Min2(Len(DayParts), Len(day_places)) |->
        [part |-> DayParts[i], place |-> day_places[i]]]

\* lines 467-484: the three slots of a day
day_slots(day_places) ==
    [i \in 1..Len(DayParts) |->
        [part  |-> DayParts[i],
         place |-> IF i - 1 < Len(day_places) THEN day_places[i]
                   ELSE [name |-> FreeExploration]]]

\* lines 458-499: the per-day plan
plan_list_of(places, days, weather_list) ==
    LET places_per_day == Max2(1, Len(places) \div days)
    IN  [d \in 1..days |->
            LET start_idx == (d - 1) * places_per_day
                end_idx   == Min2(d * places_per_day, Len(places))
            IN  [day     |-> d,
                 slots   |-> day_slots(Slice(places, start_idx, Max2(end_idx, start_idx))),
                 weather |-> IF Len(weather_list) > d - 1 THEN weather_list[d] ELSE PyNone]]

HTTPResponse(status, days, p) == [status |-> status, days |-> days, plan |-> p]

\* lines 436-518: the body of the try block: a response, or an exception
plan_body(r, g, places, weather_list) ==
    IF (r.stay_lat = PyNone \/ r.stay_lng = PyNone) /\ g = PyNone
    THEN [exc |-> "HTTPException", value |-> HTTPResponse(400, 0, << >>)]
    ELSE IF ~iso_date_ok(r.start_date)
    THEN [exc |-> "ValueError", value |-> << >>]
    ELSE Returned(HTTPResponse(200, r.days, plan_list_of(places, r.days, weather_list)))

\* lines 519-520: except Exception as e: raise HTTPException(status_code=500, ...);
\* HTTPException is an Exception
plan_response(body) ==
    IF body.exc # "none" THEN HTTPResponse(500, 0, << >>) ELSE body.value

Requests ==
    [days : 1..MaxPlanDays, stay_lat : {PyNone, PyFloat(100)}, stay_lng : {PyNone, PyFloat(200)},
     start_date : StartDates, use_groq : BOOLEAN]

PlanIdle == aPc = "idle" /\ req = << >> /\ geo = PyNone /\ aResp = << >>

PlanInit == aPc = "call" /\ req \in Requests /\ geo = PyNone /\ aResp = << >>

\* lines 434-520: one request
CallPlan ==
    /\ aPc = "call"
    /\ \E g \in GeoOutcomes, n \in 0..MaxElements, failed \in BOOLEAN,
          weather_list \in WeatherOutcomes(req.days) :
          /\ geo' = IF req.stay_lat = PyNone \/ req.stay_lng = PyNone THEN g ELSE PyNone
          /\ aResp' = plan_response(
                 plan_body(req, geo', osm_search_places(n, failed, req.days * 3), weather_list))
    /\ aPc' = "done"
    /\ UNCHANGED <<req, qVars, bVars, wVars, rVars, sVars, gVars>>

(***************************************************************************)
(* SpecPrefs: one call of a function of planner/preferences.py.            *)
(***************************************************************************)
PrefsInit ==
    /\ \/ QuotaInit /\ BuilderIdle
       \/ QuotaIdle /\ BuilderInit
    /\ WeatherIdle /\ RouteIdle /\ ScoreIdle /\ ItineraryIdle /\ PlanIdle

PrefsNext ==
    \/ CallProportionalQuotas
    \/ BuildUnknownType
    \/ BuildNoSlots
    \/ BuildStart
    \/ BuildPlace
    \/ BuildFallback
    \/ BuildReturn

SpecPrefs == PrefsInit /\ [][PrefsNext]_vars

(***************************************************************************)
(* SpecWeather: one call of prefer_indoor_if_rain.                         *)
(***************************************************************************)
WeatherSpecInit ==
    /\ WeatherInit /\ QuotaIdle /\ BuilderIdle /\ RouteIdle /\ ScoreIdle
    /\ ItineraryIdle /\ PlanIdle
WeatherNext == CallPreferIndoorIfRain
SpecWeather == WeatherSpecInit /\ [][WeatherNext]_vars

(***************************************************************************)
(* SpecRoute: one call of nearest_route.                                   *)
(***************************************************************************)
RouteSpecInit ==
    /\ RouteInit /\ QuotaIdle /\ BuilderIdle /\ WeatherIdle /\ ScoreIdle
    /\ ItineraryIdle /\ PlanIdle
RouteNext == RouteStart \/ RouteStep \/ RouteReturn
SpecRoute == RouteSpecInit /\ [][RouteNext]_vars

(***************************************************************************)
(* SpecScore: one call of score_candidates.                                *)
(***************************************************************************)
ScoreSpecInit ==
    /\ ScoreInit /\ QuotaIdle /\ BuilderIdle /\ WeatherIdle /\ RouteIdle
    /\ ItineraryIdle /\ PlanIdle
ScoreNext == CallScoreCandidates
SpecScore == ScoreSpecInit /\ [][ScoreNext]_vars

(***************************************************************************)
(* SpecItinerary: one call of generate_itinerary.                          *)
(***************************************************************************)
ItinerarySpecInit ==
    /\ ItineraryInit /\ QuotaIdle /\ BuilderIdle /\ WeatherIdle /\ RouteIdle /\ ScoreIdle
    /\ PlanIdle
ItineraryNext == GenStart \/ GenDay \/ GenReturn
SpecItinerary == ItinerarySpecInit /\ [][ItineraryNext]_vars

(***************************************************************************)
(* SpecPlan: one request POST /plan.                                       *)
(***************************************************************************)
PlanSpecInit ==
    /\ PlanInit /\ QuotaIdle /\ BuilderIdle /\ WeatherIdle /\ RouteIdle /\ ScoreIdle
    /\ ItineraryIdle
PlanNext == CallPlan
SpecPlan == PlanSpecInit /\ [][PlanNext]_vars

(***************************************************************************)
(* Properties.                                                             *)
(***************************************************************************)
Count(q, x) == Cardinality({i \in 1..Len(q) : q[i] = x})
Range(q) == {q[i] : i \in 1..Len(q)}
SameMultiset(a, b) ==
    /\ Len(a) = Len(b)
    /\ \A x \in Range(a) \cup Range(b) : Count(a, x) = Count(b, x)

\* C1: for non-negative integer weights of positive total and n_total >= 0,
\* proportional_quotas returns non-negative integer counts that sum to
\* exactly n_total.
C1_QuotasSumToTotal ==
    (qPc = "done" /\ SumSeq([i \in 1..Len(qWeights) |-> qWeights[i][2]]) > 0 /\ qN >= 0) =>
        /\ qOut.exc = "none"
        /\ \A i \in 1..Len(qOut.value) : qOut.value[i][2] \in Nat
        /\ SumSeq([i \in 1..Len(qOut.value) |-> qOut.value[i][2]]) = qN

\* a call that had a remainder to hand out, over a repeated category
C1_Witness ==
    /\ qPc = "done"
    /\ qN = 5
    /\ qWeights = << <<"cafes", 1>>, <<"scenic", 2>>, <<"cafes", 2>> >>
    /\ qOut.value = << <<"cafes", 2>>, <<"scenic", 3>> >>

\* The quota of category c the builder works from.
QuotaFor(rows, days, c) ==
    LET q == proportional_quotas(cat_weights(rows), n_keep_of(days)).value
    IN  IF DictHas(q, c) THEN DictGet(q, c) ELSE 0

\* C2: the sequence build_weighted_sequence returns holds each category
\* exactly as often as its quota, its length is the quota sum, and the loop
\* does not stop while a quota remains.
C2_SequenceMatchesQuotas ==
    bPc = "done" =>
        /\ \A c \in PrefCats : Count(bOut, c) = QuotaFor(bRows, bDays, c)
        /\ Range(bOut) \subseteq PrefCats
        /\ Len(bOut) = SumSeq([i \in 1..Len(Categories) |->
                                  QuotaFor(bRows, bDays, Categories[i])])
        /\ quotas = << >>

\* a five-slot sequence over three categories with quotas 2, 2 and 1
C2_Witness ==
    /\ bPc = "done"
    /\ Len(bOut) = 5
    /\ Count(bOut, "cafes") = 2 /\ Count(bOut, "romantic") = 2 /\ Count(bOut, "scenic") = 1

\* C3: a position i > 0 of the sequence repeats position i-1 only if, when it
\* was filled, the previously placed category was the only one with quota left.
C3_RepeatOnlyWhenForced ==
    [][(/\ bPc = "loop"
        /\ Len(result) > 0
        /\ Len(result') = Len(result) + 1
        /\ result'[Len(result')] = result[Len(result)])
       => (\A i \in 1..Len(quotas) : quotas[i][1] = result[Len(result)])]_vars

\* a finished sequence with a repeat at its end and another category before it
C3_Witness ==
    /\ bPc = "done"
    /\ Len(bOut) = 8
    /\ bOut[8] = bOut[7]
    /\ \E i \in 1..6 : bOut[i] # bOut[7]

\* C4: the route nearest_route returns has the length of the input and is a
\* permutation of it.
C4_RouteIsPermutation ==
    rPc = "done" => Len(route) = Len(rPoints) /\ SameMultiset(route, rPoints)

\* three points, one of them twice, routed in another order than given
C4_Witness ==
    /\ rPc = "done"
    /\ Len(route) = 3
    /\ route # rPoints
    /\ rPoints[1] = rPoints[3]
    /\ rPoints[2] # rPoints[1]

\* the forecast gives no precipitation probability of at least 0.5
NoRainForecast(f) ==
    \/ f = PyNone
    \/ f[2] = << >>
    \/ \A i \in 1..Len(f[2]) : f[2][i][1] = "avg_pop" =>
          (f[2][i][2] = PyNone \/ f[2][i][2][2] < 50)

\* C5: without a forecast, without a precipitation probability, or with one
\* below 0.5, prefer_indoor_if_rain returns its input list as it is.
C5_NoRainPassThrough ==
    (wPc = "done" /\ NoRainForecast(wForecast)) => wOut = wCategories

\* probability 0.49 and an outdoor category ahead of an indoor one
C5_Witness ==
    /\ wPc = "done"
    /\ wForecast = PyDict(<< <<"avg_pop", PyFloat(49)>> >>)
    /\ wCategories = <<"scenic", "cafes", "romantic">>
    /\ wOut = wCategories

\* C6: with precipitation probability >= 0.5 the output has the categories of
\* the input (same multiset, same length); only the first three positions may
\* change order and the entries beyond the third are untouched.
C6_RainKeepsCategories ==
    (wPc = "done" /\ ~NoRainForecast(wForecast)) =>
        /\ SameMultiset(wOut, wCategories)
        /\ \A i \in 4..Len(wCategories) : wOut[i] = wCategories[i]

\* The score of candidate i of the input, as the claim gives it, with the
\* rounding of its double.
ScoreOf(i) == <<ExactScores(sStart, sItems)[i], sRound[i]>>
\* candidate i comes before candidate j in descending score, ties in input order
RanksBefore(i, j) ==
    \/ LexLess(ScoreOf(j), ScoreOf(i))
    \/ ScoreOf(i) = ScoreOf(j) /\ i < j
RankOf(i) == 1 + Cardinality({j \in 1..Len(sItems) : RanksBefore(j, i)})

\* C7: for a non-empty candidate list and k >= 0, score_candidates returns the
\* first min(k, n) candidates in descending score
\* 0.6*rating_norm + 0.4*(1 - distance_norm), equal scores in input order.
C7_TopKStableDescending ==
    (sPc = "done" /\ sItems # << >> /\ sK >= 0) =>
        /\ Len(sOut) = Min2(sK, Len(sItems))
        /\ \A i \in 1..Len(sItems) : RankOf(i) <= Len(sOut) => sOut[RankOf(i)] = sItems[i]

\* two different candidates of equal score, both returned, behind a better one
C7_Witness ==
    /\ sPc = "done"
    /\ Len(sItems) = 3
    /\ sK = 2
    /\ sItems[1] # sItems[2]
    /\ ScoreOf(1) = ScoreOf(2)
    /\ LexLess(ScoreOf(1), ScoreOf(3))
    /\ sOut = <<sItems[3], sItems[1]>>

\* The denominator the score numerators of one call are over.
ScoreDenOf(start, items) ==
    LET dists   == dists_of(start, items)
        ratings == ratings_of(items)
    IN  10 * (IF SeqMax(ratings) = SeqMin(ratings) THEN 1 ELSE SeqMax(ratings) - SeqMin(ratings))
           * (IF SeqMax(dists) = SeqMin(dists) THEN 1 ELSE SeqMax(dists) - SeqMin(dists))

AllSameRating == \A i, j \in 1..Len(sItems) : sItems[i].rating = sItems[j].rating
AllSameDistance ==
    \A i, j \in 1..Len(sItems) :
        Abs(sItems[i].lat - sStart[1]) = Abs(sItems[j].lat - sStart[1])

\* C8: every score score_candidates computes lies in [0, 1]; when all ratings
\* or all distances are equal the normalized term is 0 (the score is then at
\* most 0.4, respectively at least 0.4) and no division by zero occurs.
C8_ScoreInUnitInterval ==
    /\ sPc # "raised"
    /\ sPc = "done" =>
         \A i \in 1..Len(scored) :
            LET num == scored[i][1][1]
                rnd == scored[i][1][2]
                den == ScoreDenOf(sStart, sItems)
            IN  /\ 0 <= num /\ num <= den
                /\ num = 0 => rnd >= 0
                /\ num = den => rnd <= 0
                /\ AllSameRating => 10 * num <= 4 * den
                /\ AllSameDistance => 10 * num >= 4 * den

\* equal ratings at different distances: the nearer candidate scores 0.4, the farther 0
C8_Witness ==
    /\ sPc = "done"
    /\ Len(sItems) = 2
    /\ AllSameRating /\ ~AllSameDistance
    /\ scored[1][1][1] * 10 = 4 * ScoreDenOf(sStart, sItems)
    /\ scored[2][1][1] = 0

\* C9: proportional_quotas returns quota 0 for every category, and raises
\* nothing, whenever n_total <= 0 or all weights are 0; build_weighted_sequence
\* returns the empty sequence for days <= 0.
C9_EmptyAllocation ==
    /\ qOut.exc = "none"
    /\ (qPc = "done" /\ (qN <= 0 \/ \A i \in 1..Len(qWeights) : qWeights[i][2] = 0)) =>
          /\ {qOut.value[i][1] : i \in 1..Len(qOut.value)}
                = {qWeights[i][1] : i \in 1..Len(qWeights)}
          /\ \A i \in 1..Len(qOut.value) : qOut.value[i][2] = 0
    /\ bPc # "raised"
    /\ (bPc \in {"loop", "done"} /\ bDays <= 0) => (bPc = "done" /\ bOut = << >>)

\* a negative n_total over weights of positive total
C9_Witness ==
    /\ qPc = "done"
    /\ qN = 0 - 1
    /\ qWeights = << <<"romantic", 2>>, <<"cafes", 1>> >>
    /\ qOut.value = << <<"romantic", 0>>, <<"cafes", 0>> >>

\* C10: for a traveler type with preference rows of positive total weight and
\* days >= 1, build_weighted_sequence returns exactly days*3 - 1 categories.
C10_LengthIsSlotsMinusOne ==
    (/\ bPc = "done"
     /\ bDays >= 1
     /\ \E p \in bRows : p[2] > 0) => Len(bOut) = bDays * 3 - 1

\* two days over two weighted categories: five categories, not six
C10_Witness ==
    /\ bPc = "done"
    /\ bDays = 2
    /\ bRows = {<<"romantic", 2>>, <<"cafes", 1>>}
    /\ Len(bOut) = 5

\* The categories of a weight list are pairwise different.
DistinctCats(ws) == \A i, j \in 1..Len(ws) : ws[i][1] = ws[j][1] => i = j

\* The remainder units category c received on top of its floor share.
ExtraUnits(c) ==
    DictGet(qOut.value, c) - floor_share(qN, LastWeight(qWeights, c), total_weight(qWeights))

\* C11: with weights romantic=5, scenic=3, cafes=2 and n_total = 5 the
\* allocator gives romantic a quota of 3 (its share 2.5 gets the remainder unit).
C11_ExampleGivesRomanticThree ==
    (qPc = "done" /\ qWeights = ExampleWeights /\ qN = 5) =>
        DictGet(qOut.value, "romantic") = 3

\* C16: among categories with the same fractional remainder, a category whose
\* name comes first in ascending order gets a remainder unit before one whose
\* name comes later.
C16_TiesToNameAscending ==
    (/\ qPc = "done"
     /\ qN > 0
     /\ total_weight(qWeights) > 0
     /\ DistinctCats(qWeights)) =>
        \A i, j \in 1..Len(qWeights) :
            (/\ CatRank(qWeights[i][1]) < CatRank(qWeights[j][1])
             /\ (qN * qWeights[i][2]) % total_weight(qWeights)
                  = (qN * qWeights[j][2]) % total_weight(qWeights))
                => ExtraUnits(qWeights[i][1]) >= ExtraUnits(qWeights[j][1])

\* C18 as stated: for n_total > 0 every category of positive weight receives a
\* quota of at least 1.
C18_PositiveShareNeverZero ==
    (qPc = "done" /\ qN > 0 /\ total_weight(qWeights) > 0) =>
        \A i \in 1..Len(qOut.value) :
            LastWeight(qWeights, qOut.value[i][1]) > 0 => qOut.value[i][2] >= 1

\* C18 (amended): for n_total > 0 every category whose raw proportional share
\* n_total*weight/total_weight is at least 1 receives a quota of at least 1.
C18_WholeShareNeverZero ==
    (qPc = "done" /\ qN > 0 /\ total_weight(qWeights) > 0) =>
        \A i \in 1..Len(qOut.value) :
            qN * LastWeight(qWeights, qOut.value[i][1]) >= total_weight(qWeights)
                => qOut.value[i][2] >= 1

\* a share of exactly 1 is kept while a positive share of 1/2 gets nothing
C18_Witness ==
    /\ qPc = "done"
    /\ qN = 2
    /\ qWeights = << <<"cafes", 2>>, <<"romantic", 1>>, <<"scenic", 1>> >>
    /\ qOut.value = << <<"cafes", 1>>, <<"romantic", 0>>, <<"scenic", 1>> >>

\* C17: at each step of build_weighted_sequence, among the categories other
\* than the one placed last that share the highest remaining quota, the one of
\* higher preference weight is placed, and the name (ascending) decides only
\* between categories of equal weight.
C17_TieByWeightThenName ==
    [][(/\ bPc = "loop"
        /\ Len(result') = Len(result) + 1
        /\ result'[Len(result')] # last)
       => LET c    == result'[Len(result')]
              elig == {i \in 1..Len(quotas) : quotas[i][1] # last}
              top  == {i \in elig : \A j \in elig : quotas[j][2] <= quotas[i][2]}
          IN  \A i \in top :
                 \/ DictGet(weights, c) > DictGet(weights, quotas[i][1])
                 \/ /\ DictGet(weights, c) = DictGet(weights, quotas[i][1])
                    /\ CatRank(c) <= CatRank(quotas[i][1])]_vars

\* The one-to-one assignments of route positions to input positions.
Orders(n) == {f \in [1..n -> 1..n] : \A i, j \in 1..n : f[i] = f[j] => i = j}

\* C20: the first route element is a point of least distance to the start,
\* every later element is a point of least distance to the element before it
\* among the points not yet routed, and of several equally near points the
\* one earliest in the input list is taken.
C20_GreedyNearestEarliest ==
    rPc = "done" =>
        \E idx \in Orders(Len(rPoints)) :
            /\ Len(route) = Len(rPoints)
            /\ \A i \in 1..Len(route) :
                  LET prev == IF i = 1 THEN rStart ELSE latlng_of(route[i - 1])
                      left == (1..Len(rPoints)) \ {idx[k] : k \in 1..(i - 1)}
                      d(p) == haversine(prev, latlng_of(p))
                  IN  /\ route[i] = rPoints[idx[i]]
                      /\ \A j \in left :
                            /\ d(route[i]) <= d(rPoints[j])
                            /\ d(route[i]) = d(rPoints[j]) => idx[i] <= j

\* two different points equally near the start: the first given is routed
\* first, and a third point follows
C20_Witness ==
    /\ rPc = "done"
    /\ Len(route) = 3
    /\ rPoints[1] # rPoints[2]
    /\ haversine(rStart, latlng_of(rPoints[1])) = haversine(rStart, latlng_of(rPoints[2]))
    /\ haversine(rStart, latlng_of(rPoints[3])) > haversine(rStart, latlng_of(rPoints[1]))
    /\ route[1] = rPoints[1]

\* C12: every day's entry of the plan generate_itinerary returns has exactly
\* three slots, labelled Morning, Afternoon, Evening in that order; a slot
\* without a routed candidate is present rather than left out.
C12_ThreeSlotsEveryDay ==
    gPc = "done" =>
        \A i \in 1..Len(plan) :
            /\ Len(plan[i].slots) = Len(DayParts)
            /\ \A k \in 1..Len(plan[i].slots) : plan[i].slots[k].part = DayParts[k]

\* C13: no failure of the weather fetch, of the places search of a category
\* or of the narrative generation aborts generate_itinerary (only a
\* destination that cannot be geocoded does), and a returned plan has one
\* entry per requested day.
C13_OptionalFailuresDoNotAbort ==
    /\ gPc = "raised" => gErr.who \in {"geocode_city", "generate_itinerary"}
    /\ gPc = "done" => Len(plan) = gDays

\* C19: the list generate_itinerary hands to nearest_route is flat: each of
\* its at most three elements is one candidate place, the top-scored one of
\* its category.
C19_RouterGetsOnePlacePerCategory ==
    /\ Len(chosen) <= Len(DayParts)
    /\ \A k \in 1..Len(chosen) : chosen[k][1] = "dict"

\* C14: a request POST /plan without stay coordinates whose destination no
\* provider can geocode is answered with HTTP 400.
C14_UngeocodableIsClientError ==
    (/\ aPc = "done"
     /\ req.stay_lat = PyNone \/ req.stay_lng = PyNone
     /\ geo = PyNone) => aResp.status = 400

\* C15: for every day count and every list of places the search returns, a
\* request with resolved coordinates and a well-formed (or no) start date is
\* answered with a plan of exactly `days` entries, numbered 1, 2, ..., days in
\* this order, each with the three slots Morning, Afternoon, Evening, where a
\* slot without a place is "Free exploration".
C15_DayPlansAreComplete ==
    /\ (/\ aPc = "done"
        /\ ~((req.stay_lat = PyNone \/ req.stay_lng = PyNone) /\ geo = PyNone)
        /\ iso_date_ok(req.start_date)) => aResp.status = 200
    /\ (aPc = "done" /\ aResp.status = 200) =>
          /\ Len(aResp.plan) = req.days
          /\ \A d \in 1..Len(aResp.plan) :
                /\ aResp.plan[d].day = d
                /\ Len(aResp.plan[d].slots) = 3
                /\ \A k \in 1..Len(aResp.plan[d].slots) :
                      /\ aResp.plan[d].slots[k].part = <<"Morning", "Afternoon", "Evening">>[k]
                      /\ aResp.plan[d].slots[k].place.name[1]
                            \in {"osm", "generic", "fallback", FreeExploration[1]}
                      /\ (k > 1 /\ aResp.plan[d].slots[k - 1].place.name = FreeExploration)
                            => aResp.plan[d].slots[k].place.name = FreeExploration

\* a two-day plan from the fallback list: two places and a free evening
C15_Witness ==
    /\ aPc = "done"
    /\ aResp.status = 200
    /\ req.days = 2
    /\ aResp.plan[1].slots[1].place.name = <<"fallback", 1>>
    /\ aResp.plan[1].slots[3].place.name = FreeExploration
    /\ aResp.plan[2].slots[1].place.name = <<"fallback", 3>>

\* C21: for a day list of at most 3 categories and precipitation probability
\* >= 0.5, every indoor category of the output precedes every category that
\* is not indoor, and within the indoor group and within the outdoor group
\* the order is that of the input.
C21_IndoorFirstStable ==
    (wPc = "done" /\ ~NoRainForecast(wForecast) /\ Len(wCategories) <= 3) =>
        /\ \A i, j \in 1..Len(wOut) :
              (wOut[i] \notin INDOOR_CATS /\ wOut[j] \in INDOOR_CATS) => j < i
        /\ SelectSeq(wOut, LAMBDA c : c \in INDOOR_CATS)
              = SelectSeq(wCategories, LAMBDA c : c \in INDOOR_CATS)
        /\ SelectSeq(wOut, LAMBDA c : c \notin INDOOR_CATS)
              = SelectSeq(wCategories, LAMBDA c : c \notin INDOOR_CATS)

\* probability 0.5: two indoor categories move ahead of the outdoor one that
\* was given first, and keep their order
C21_Witness ==
    /\ wPc = "done"
    /\ wForecast = PyDict(<< <<"avg_pop", PyFloat(50)>> >>)
    /\ wCategories = <<"romantic", "museums", "cafes">>
    /\ wOut = <<"museums", "cafes", "romantic">>

\* C22: sequence_to_days applied to the sequence of build_weighted_sequence
\* gives exactly `days` chunks, chunk j holds the consecutive entries
\* seq[3j .. 3j+2] that exist, the chunks together are the whole sequence; for
\* a known traveler type of positive total weight every day but the last
\* gets exactly 3 categories and the last day exactly 2, and for an unknown
\* traveler type every day gets the empty list.
C22_ChunksOfThree ==
    (gPc # "call" /\ latlng # PyNone) =>
        LET seq == build_weighted_sequence(gRows, gDays)
            per == per_day_categories
        IN  /\ Len(per) = gDays
            /\ \A j \in 1..Len(per) :
                  /\ Len(per[j]) <= 3
                  /\ \A k \in 1..Len(per[j]) :
                        /\ 3 * (j - 1) + k <= Len(seq)
                        /\ per[j][k] = seq[3 * (j - 1) + k]
            /\ SumSeq([j \in 1..Len(per) |-> Len(per[j])]) = Len(seq)
            /\ (\E p \in gRows : p[2] > 0) =>
                  \A j \in 1..Len(per) : Len(per[j]) = IF j < gDays THEN 3 ELSE 2
            /\ gRows = {} => \A j \in 1..Len(per) : per[j] = << >>

\* two days of a traveler type with three categories: a day of three and a
\* last day of two
C22_Witness ==
    /\ gPc = "days"
    /\ gDays = 2
    /\ gRows = {<<"romantic", 2>>, <<"scenic", 2>>, <<"cafes", 1>>}
    /\ Len(per_day_categories) = 2
    /\ Len(per_day_categories[1]) = 3
    /\ Len(per_day_categories[2]) = 2
    /\ per_day_categories[1] \o per_day_categories[2]
          = build_weighted_sequence(gRows, gDays)

\* C23: whenever the largest quota is at most ceil(n/2), for n the sum of the
\* quotas, the sequence build_weighted_sequence returns has no two equal
\* adjacent entries.
C23_NoRepeatWhenAvoidable ==
    bPc = "done" =>
        LET n == SumSeq([i \in 1..Len(Categories) |-> QuotaFor(bRows, bDays, Categories[i])])
        IN  (\A c \in CatSet : 2 * QuotaFor(bRows, bDays, c) <= n + 1) =>
                \A i \in 1..(Len(bOut) - 1) : bOut[i] # bOut[i + 1]

\* five slots with quotas 3, 1 and 1: the largest quota is exactly ceil(5/2)
\* and its category takes every other slot
C23_Witness ==
    /\ bPc = "done"
    /\ Len(bOut) = 5
    /\ \E c \in PrefCats :
          /\ QuotaFor(bRows, bDays, c) = 3
          /\ bOut[1] = c /\ bOut[3] = c /\ bOut[5] = c
    /\ bOut[2] # bOut[4]



\* The weight a list gives category c: the sum over the entries naming c, the
\* way total_weight counts them (one entry per category is the usual case).
CatWeight(ws, c) ==
    SumSeq([i \in 1..Len(ws) |-> IF ws[i][1] = c THEN ws[i][2] ELSE 0])

====
